---------------------------- MODULE Spec2Model ----------------------------
(***************************************************************************)
(* A model of govuk_notify_rs: the credential deriver (src/src/auth.rs)    *)
(* and the notification dispatcher (src/src/lib.rs).                       *)
(*                                                                         *)
(* Representation.                                                         *)
(*  - A Rust String is the sequence of its UTF-8 bytes.  An ASCII byte is  *)
(*    written as the one-character string of its character; the two bytes  *)
(*    of a two-byte character are written "C3" (lead byte) and "A9"        *)
(*    (continuation byte).  Positions are 0-indexed as in the source; the  *)
(*    byte at position i of s is s[i + 1].                                 *)
(*  - A usize is an integer; a negative integer n stands for the wrapped   *)
(*    value 2^64 + n, which is what a - b yields for a < b in a build      *)
(*    without overflow checks.                                             *)
(*  - A function that may panic yields Panic (<< >>) or Ret(v) (<< v >>).  *)
(*    Option<T> is None (<< >>) or Some(v) (<< v >>).                      *)
(***************************************************************************)
EXTENDS Integers, Sequences, FiniteSets, TLC

VARIABLES
    api_key,        \* NotifyClient.api_key
    notify_server,  \* NotifyClient.notify_server
    clock,          \* the system clock: seconds since the Unix epoch (i64)
    calls,          \* one record per send_email / send_sms invocation
    derived,        \* history: the two latest tokens create_jwt returned,
                    \* each with the clock at its call
    probe           \* results of direct calls of service_id / secret_key

vars == << api_key, notify_server, clock, calls, derived, probe >>

---------------------------------------------------------------------------
(* Bounds of the model.                                                    *)

\* Number of send_email / send_sms invocations on the one client.
NumCalls == 2

\* The clock is started at -1 or 0 and runs up to MaxClock.
MaxClock == 1

\* Longest prefix put in front of the two UUIDs of a well-formed key.
MaxPrefix == 13

---------------------------------------------------------------------------
(* Option, panics, usize.                                                  *)

None == << >>

Some(v) == << v >>

IsSome(o) == Len(o) = 1

Panic == << >>

Ret(v) == << v >>

Returned(r) == Len(r) = 1

\* a < b on usize values (a negative integer stands for 2^64 + itself).
ULt(a, b) == IF (a < 0) = (b < 0) THEN a < b ELSE b < 0

ULe(a, b) == a = b \/ ULt(a, b)

\* usize::MAX
USIZE_MAX == 0 - 1

---------------------------------------------------------------------------
(* Bytes and str slicing.                                                  *)

\* The bytes 0x80..=0xBF continue a character; every other byte starts one.
IsContinuationByte(b) == b = "A9"

\* str::is_char_boundary
is_char_boundary(s, index) ==
    IF index = 0 THEN TRUE
    ELSE IF ULe(Len(s), index) THEN index = Len(s)
    ELSE ~IsContinuationByte(s[index + 1])

\* &s[start..end]: panics unless start <= end <= len and both ends are
\* character boundaries.
slice_range(s, start, end) ==
    IF /\ ULe(start, end)
       /\ is_char_boundary(s, start)
       /\ is_char_boundary(s, end)
    THEN Ret(SubSeq(s, start + 1, end))
    ELSE Panic

\* &s[start..=end]: panics when end is usize::MAX, else it is &s[start..end+1].
slice_range_inclusive(s, start, end) ==
    IF end = USIZE_MAX THEN Panic ELSE slice_range(s, start, end + 1)

---------------------------------------------------------------------------
(* auth.rs: positional extraction.                                         *)

\* The offsets of auth.rs lines 25 and 29.
ISSUER_START_FROM_END == 73

ISSUER_LAST_FROM_END == 38

SECRET_START_FROM_END == 36

\* The window service_id reads: api_key.len() - 73 ..= api_key.len() - 38.
service_id_window(len) ==
    [first |-> len - ISSUER_START_FROM_END, last |-> len - ISSUER_LAST_FROM_END]

\* A variant of secret_key_window that starts at the delimiter.
secret_key_window_from_delimiter(len) ==
    [first |-> len - SECRET_START_FROM_END - 1, end |-> len]

\* The window secret_key reads: api_key.len() - 36 .. api_key.len().
secret_key_window(len) ==
    [first |-> len - SECRET_START_FROM_END, end |-> len]

\* A variant of service_id that reads the half-open range [len-73, len-38).
service_id_half_open(key) ==
    LET w == service_id_window(Len(key))
    IN  slice_range(key, w.first, w.last)

\* fn service_id(api_key: &str) -> String.  For a key shorter than 73 bytes
\* the subtraction panics in a build with overflow checks and wraps in one
\* without, where the slice's bounds check panics: a panic in both.
service_id(key) ==
    LET w == service_id_window(Len(key))
    IN  slice_range_inclusive(key, w.first, w.last)

\* fn secret_key(api_key: &str) -> &[u8]
secret_key(key) ==
    LET w == secret_key_window(Len(key))
    IN  slice_range(key, w.first, w.end)

---------------------------------------------------------------------------
(* Keys.                                                                   *)

PrefixBytes ==
    << "m", "y", "_", "t", "e", "s", "t", "_", "k", "e", "y", "-" >>

IssuerUuid ==
    << "2", "6", "7", "8", "5", "a", "0", "9", "-", "a", "b", "1",
       "6", "-", "4", "e", "b", "0", "-", "8", "4", "0", "7", "-",
       "a", "3", "7", "4", "9", "7", "a", "5", "7", "5", "0", "6" >>

SecretUuid ==
    << "3", "d", "8", "4", "4", "e", "d", "f", "-", "8", "d", "3",
       "5", "-", "4", "8", "a", "c", "-", "9", "7", "5", "b", "-",
       "e", "8", "4", "7", "b", "4", "f", "1", "2", "2", "b", "0" >>

\* The key of test_service_id and test_secret_key (85 bytes).
TestKey == PrefixBytes \o IssuerUuid \o << "-" >> \o SecretUuid

OtherIssuerUuid ==
    << "2", "1", "7", "a", "4", "1", "9", "e", "-", "6", "a", "7",
       "d", "-", "4", "8", "2", "a", "-", "9", "5", "9", "6", "-",
       "7", "1", "8", "b", "8", "8", "9", "d", "f", "f", "c", "e" >>

OtherSecretUuid ==
    << "b", "8", "f", "5", "b", "b", "a", "5", "-", "5", "5", "2",
       "8", "-", "4", "b", "f", "6", "-", "b", "9", "a", "8", "-",
       "9", "1", "1", "a", "2", "5", "7", "f", "0", "c", "d", "4" >>

\* The last p bytes of "my_test_key-" repeated.
Pad(p) ==
    [j \in 1..p |->
        PrefixBytes[((j + Len(PrefixBytes) - 1 - (p % Len(PrefixBytes)))
                       % Len(PrefixBytes)) + 1]]

\* The last n bytes of s.
Suffix(s, n) == SubSeq(s, Len(s) - n + 1, Len(s))

\* s with the two-byte character "C3" "A9" over positions q and q + 1.
WithWideChar(s, q) ==
    [j \in 1..Len(s) |->
        IF j = q + 1 THEN "C3" ELSE IF j = q + 2 THEN "A9" ELSE s[j]]

\* Keys of the shape <prefix><issuer-uuid>-<secret-uuid>, 73 bytes and more.
WellFormedKeys ==
    { Pad(p) \o i \o << "-" >> \o s :
        p \in 0..MaxPrefix,
        i \in {IssuerUuid, OtherIssuerUuid},
        s \in {SecretUuid, OtherSecretUuid} }

\* Keys shorter than 73 bytes: the test key cut short from the front.
ShortKeys == { Suffix(TestKey, n) : n \in 0..(ISSUER_START_FROM_END - 1) }

\* Keys of 73 bytes and more that hold a two-byte character: in the prefix,
\* across the start of either window, across the end of the issuer window,
\* and inside either window.
WideCharKeys ==
    { WithWideChar(TestKey, q) :
        q \in { 0, 10,
                Len(TestKey) - 74, Len(TestKey) - 73, Len(TestKey) - 50,
                Len(TestKey) - 39, Len(TestKey) - 38, Len(TestKey) - 37,
                Len(TestKey) - 36, Len(TestKey) - 2 } }

ProbeKeys == WellFormedKeys \cup ShortKeys \cup WideCharKeys

---------------------------------------------------------------------------
(* The client, and the state both specifications start from.               *)

DEFAULT_BASE_URL == "https://api.notifications.service.gov.uk"

\* NotifyClient::new(api_key, notify_server)
New(key, server) ==
    [ notify_server |-> IF IsSome(server) THEN server[1] ELSE DEFAULT_BASE_URL,
      api_key       |-> key ]

Calls == 1..NumCalls

IdleCall == [pc |-> "idle"]

NotProbed == [service_id |-> None, secret_key |-> None]

---------------------------------------------------------------------------
(* auth.rs: the token.                                                     *)

Ok(v) == [ok |-> TRUE, v |-> v]

Err(e) == [ok |-> FALSE, e |-> e]

\* A variant of utc_now_timestamp that keeps the first reading.
utc_now_timestamp_frozen(now) == IF now < 0 THEN Panic ELSE Ret(0)

\* Utc::now().timestamp(): the clock's seconds.  Utc::now() panics
\* ("system time before Unix epoch") when the clock is before the epoch.
utc_now_timestamp(now) == IF now < 0 THEN Panic ELSE Ret(now)

\* `t as usize`: the same 64 bits read as unsigned, so a negative t becomes
\* 2^64 + t, which is what the integer t stands for as a usize.
as_usize(t) == t

\* struct Claims { iss, iat }
Claims(iss, iat) == [iss |-> iss, iat |-> iat]

\* Header::new(Algorithm::HS256)
HeaderHS256 == [alg |-> "HS256", typ |-> "JWT"]

\* encode(&header, &claims, &EncodingKey::from_secret(secret)): the compact
\* token header.payload.signature, the signature being the HMAC-SHA256 of
\* header.payload under the secret; or the signing primitive's error.
encode(header, claims, secret, sign_ok) ==
    IF sign_ok
    THEN Ok([ header    |-> header,
              claims    |-> claims,
              signature |-> [hmac_sha256_key |-> secret,
                             message |-> << header, claims >>] ])
    ELSE Err("jsonwebtoken::errors::Error")

\* A variant of create_jwt with the two halves of the key exchanged.
create_jwt_swapped(key, now, sign_ok) ==
    LET iss == secret_key(key)
        ts  == utc_now_timestamp(now)
        sec == service_id(key)
    IN  IF ~Returned(iss) \/ ~Returned(ts) \/ ~Returned(sec) THEN Panic
        ELSE Ret(encode(HeaderHS256, Claims(iss[1], as_usize(ts[1])),
                        sec[1], sign_ok))

\* pub fn create_jwt(api_key) -> Result<String, jsonwebtoken::errors::Error>,
\* called when the clock reads `now`: Panic, Ret(Err(e)) or Ret(Ok(token)).
create_jwt(key, now, sign_ok) ==
    LET iss == service_id(key)
        ts  == utc_now_timestamp(now)
        sec == secret_key(key)
    IN  IF ~Returned(iss) \/ ~Returned(ts) \/ ~Returned(sec) THEN Panic
        ELSE Ret(encode(HeaderHS256, Claims(iss[1], as_usize(ts[1])),
                        sec[1], sign_ok))

---------------------------------------------------------------------------
(* lib.rs: the request.                                                    *)

\* serde_json::Value::String / Value::Object
String(s) == [String |-> s]

Object(m) == [Object |-> m]

\* Map::new() and Map::insert
MapNew == [k \in {} |-> None]

MapInsert(m, key, value) ==
    [k \in (DOMAIN m) \cup {key} |-> IF k = key THEN value ELSE m[k]]

\* RequestBuilder::json(&body): the JSON object, one member per map entry.
json(body) == { << k, body[k] >> : k \in DOMAIN body }

\* A variant of notification_url that sends everything to the email path.
notification_url_email_only(notification_type) == "/v2/notifications/email"

\* The match of send_notification on the notification type.
notification_url(notification_type) ==
    IF notification_type = "EMAIL" THEN "/v2/notifications/email"
    ELSE "/v2/notifications/sms"

\* A variant of merge_optional that sends an omitted reference as null.
merge_optional_null_reference(body, personalisation, reference, sms_sender_id) ==
    LET b1 == IF IsSome(personalisation)
              THEN MapInsert(body, "personalisation", Object(personalisation[1]))
              ELSE body
        b2 == IF IsSome(reference)
              THEN MapInsert(b1, "reference", String(reference[1]))
              ELSE MapInsert(b1, "reference", [Null |-> TRUE])
    IN  IF IsSome(sms_sender_id)
        THEN MapInsert(b2, "sms_sender_id", String(sms_sender_id[1]))
        ELSE b2

\* The optional fields send_notification merges into the body.
merge_optional(body, personalisation, reference, sms_sender_id) ==
    LET b1 == IF IsSome(personalisation)
              THEN MapInsert(body, "personalisation", Object(personalisation[1]))
              ELSE body
        b2 == IF IsSome(reference)
              THEN MapInsert(b1, "reference", String(reference[1]))
              ELSE b1
    IN  IF IsSome(sms_sender_id)
        THEN MapInsert(b2, "sms_sender_id", String(sms_sender_id[1]))
        ELSE b2

\* self.client.post(url).header(..).header(..).header(..).json(&body)
post(url, auth_header, body) ==
    [ method  |-> "POST",
      url     |-> url,
      headers |-> [ user_agent    |-> "rust-client-pre-alpha",
                    authorization |-> auth_header,
                    content_type  |-> "application/json" ],
      json    |-> json(body) ]

\* send_notification up to its await, called when the clock reads `now`:
\* the result of create_jwt, whether unwrap() or create_jwt panicked, and
\* the requests handed to the transport, in order.
send_notification(kind, body, personalisation, reference, sms_sender_id, now, sign_ok) ==
    LET url == notification_url(kind)
        jwt == create_jwt(api_key, now, sign_ok)
    IN  IF ~Returned(jwt) \/ ~jwt[1].ok
        THEN [panicked |-> TRUE, jwt |-> jwt, requests |-> << >>]
        ELSE [ panicked |-> FALSE,
               jwt      |-> jwt,
               requests |->
                 << post(notify_server \o url,
                         << "Bearer ", jwt[1].v >>,
                         merge_optional(body, personalisation, reference,
                                        sms_sender_id)) >> ]

\* A variant of send_result that turns a non-success status into an error
\* (Response::error_for_status).
send_result_error_for_status(transport_result) ==
    IF transport_result.ok /\ transport_result.v.status >= 400
    THEN Err("reqwest::Error: status")
    ELSE transport_result

\* What send_notification returns once the transport has answered:
\* the value of `.send().await`, its last expression.
send_result(transport_result) == transport_result

---------------------------------------------------------------------------
(* Arguments and transport outcomes.                                       *)

EmailAddress == "john.doe@example.com"

PhoneNumber == "+447900900123"

TemplateId == "217a419e-6a7d-482a-9596-718b889dffce"

Personalisation == "my_variable" :> String("some value")

Personalisations == { None, Some(Personalisation) }

References == { None, Some("ref_unique_xyz") }

SmsSenderIds == { None, Some("b8f5bba5-5528-4bf6-b9a8-911a257f0cd4") }

Response(status) == [status |-> status]

TransportResults ==
    { Ok(Response(201)), Ok(Response(403)), Err("reqwest::Error: timeout") }

\* Keys a client is built with: the test key, a key of 72 bytes, and a key
\* of 85 bytes whose offset len-73 falls inside a two-byte character.
ClientKeys ==
    { TestKey,
      Suffix(TestKey, ISSUER_START_FROM_END - 1),
      WithWideChar(TestKey, Len(TestKey) - ISSUER_START_FROM_END - 1) }

ClockStarts == { 0 - 1, 0 }

---------------------------------------------------------------------------
(* Spec: send_email and send_sms invocations on one client.                *)

Init ==
    /\ \E key \in ClientKeys, server \in { None, Some("http://localhost:6011") } :
          /\ api_key = New(key, server).api_key
          /\ notify_server = New(key, server).notify_server
    /\ clock \in ClockStarts
    /\ calls = [i \in Calls |-> IdleCall]
    /\ derived = << >>
    /\ probe = NotProbed

\* The two latest entries of a history.
Latest2(h) == IF Len(h) > 2 THEN SubSeq(h, Len(h) - 1, Len(h)) ELSE h

\* Invocation i has run up to its await (or panicked) with outcome `out`.
Dispatched(i, notification_type, args, out) ==
    /\ calls' = [calls EXCEPT ![i] =
          IF out.panicked
          THEN [ pc       |-> "panicked",
                 jwt      |-> out.jwt,
                 requests |-> out.requests ]
          ELSE [ pc       |-> "awaiting",
                 kind     |-> notification_type,
                 args     |-> args,
                 at       |-> clock,
                 jwt      |-> out.jwt,
                 requests |-> out.requests ]]
    /\ derived' =
          IF Returned(out.jwt) /\ out.jwt[1].ok
          THEN Latest2(Append(derived, [at |-> clock, token |-> out.jwt[1].v]))
          ELSE derived
    /\ UNCHANGED << api_key, notify_server, clock, probe >>

\* Slots are taken in order.
Free(i) ==
    /\ calls[i].pc = "idle"
    /\ IF i = 1 THEN TRUE ELSE calls[i - 1].pc # "idle"

\* pub async fn send_email, polled up to the await of send().
SendEmail(i, personalisation, reference, sign_ok) ==
    /\ Free(i)
    /\ LET body == MapInsert(MapInsert(MapNew, "email_address", String(EmailAddress)),
                             "template_id", String(TemplateId))
       IN  Dispatched(i, "EMAIL",
              [ personalisation |-> personalisation, reference |-> reference,
                sms_sender_id |-> None ],
              send_notification("EMAIL", body, personalisation, reference,
                                None, clock, sign_ok))

\* pub async fn send_sms, polled up to the await of send().
SendSms(i, personalisation, reference, sms_sender_id, sign_ok) ==
    /\ Free(i)
    /\ LET body == MapInsert(MapInsert(MapNew, "phone_number", String(PhoneNumber)),
                             "template_id", String(TemplateId))
       IN  Dispatched(i, "SMS",
              [ personalisation |-> personalisation, reference |-> reference,
                sms_sender_id |-> sms_sender_id ],
              send_notification("SMS", body, personalisation, reference,
                                sms_sender_id, clock, sign_ok))

\* A variant of TransportCompletes that sends the request again after a
\* transport error.
TransportCompletesOrRetries(i, transport_result) ==
    /\ calls[i].pc = "awaiting"
    /\ calls' = [calls EXCEPT ![i] =
          IF transport_result.ok
          THEN [ pc        |-> "returned",
                 posts     |-> Len(calls[i].requests),
                 transport |-> transport_result,
                 result    |-> send_result(transport_result) ]
          ELSE [ calls[i] EXCEPT !.requests = Append(@, @[1]) ]]
    /\ UNCHANGED << api_key, notify_server, clock, derived, probe >>

\* The transport answers the request of invocation i, which returns.
TransportCompletes(i, transport_result) ==
    /\ calls[i].pc = "awaiting"
    /\ calls' = [calls EXCEPT ![i] =
          [ pc        |-> "returned",
            posts     |-> Len(calls[i].requests),
            transport |-> transport_result,
            result    |-> send_result(transport_result) ]]
    /\ UNCHANGED << api_key, notify_server, clock, derived, probe >>

\* A second passes.
Tick ==
    /\ clock < MaxClock
    /\ clock' = clock + 1
    /\ UNCHANGED << api_key, notify_server, calls, derived, probe >>

Next ==
    \/ \E i \in Calls, p \in Personalisations, r \in References,
          sign_ok \in BOOLEAN :
          SendEmail(i, p, r, sign_ok)
    \/ \E i \in Calls, p \in Personalisations, r \in References,
          s \in SmsSenderIds, sign_ok \in BOOLEAN :
          SendSms(i, p, r, s, sign_ok)
    \/ \E i \in Calls, res \in TransportResults : TransportCompletes(i, res)
    \/ Tick

Spec == Init /\ [][Next]_vars

---------------------------------------------------------------------------
(* KeySpec: service_id and secret_key called on a key directly, as the     *)
(* unit tests test_service_id and test_secret_key call them.               *)

KeyInit ==
    /\ \E key \in ProbeKeys :
          /\ api_key = New(key, None).api_key
          /\ notify_server = New(key, None).notify_server
    /\ clock = 0
    /\ calls = [i \in Calls |-> IdleCall]
    /\ derived = << >>
    /\ probe = NotProbed

\* test_service_id: service_id(&api_key)
TestServiceId ==
    /\ probe.service_id = None
    /\ probe' = [probe EXCEPT !.service_id = Some(service_id(api_key))]
    /\ UNCHANGED << api_key, notify_server, clock, calls, derived >>

\* test_secret_key: secret_key(&api_key)
TestSecretKey ==
    /\ probe.secret_key = None
    /\ probe' = [probe EXCEPT !.secret_key = Some(secret_key(api_key))]
    /\ UNCHANGED << api_key, notify_server, clock, calls, derived >>

KeyNext == TestServiceId \/ TestSecretKey

KeySpec == KeyInit /\ [][KeyNext]_vars

---------------------------------------------------------------------------
(* Properties of the extraction, stated over KeySpec.                      *)

KeyLen == Len(api_key)

\* Position p of the key is a character boundary.
OnCharBoundary(p) == p = KeyLen \/ api_key[p + 1] # "A9"

\* The bytes of the key at positions from..to, both inclusive.
BytesAt(from, to) == [j \in 1..(to - from + 1) |-> api_key[from + j]]

BothProbed == IsSome(probe.service_id) /\ IsSome(probe.secret_key)

\* C1 as stated: for every key of length >= 73, service_id returns the
\* substring at [len-73, len-38) and secret_key the substring at
\* [len-36, len), and both are 36 long.
C1_AsStated ==
    (KeyLen >= 73 /\ BothProbed) =>
        /\ probe.service_id[1] = Ret(BytesAt(KeyLen - 73, KeyLen - 39))
        /\ probe.secret_key[1] = Ret(BytesAt(KeyLen - 36, KeyLen - 1))
        /\ Len(probe.service_id[1][1]) = 36
        /\ Len(probe.secret_key[1][1]) = 36

\* C1 (amended): for every key of 73 bytes or more in which the offsets
\* len-73, len-37 and len-36 are character boundaries (every ASCII key),
\* service_id returns exactly the 36 bytes at [len-73, len-37) and
\* secret_key exactly the 36 bytes at [len-36, len); for the test key these
\* are "26785a09-ab16-4eb0-8407-a37497a57506" and
\* "3d844edf-8d35-48ac-975b-e847b4f122b0".
C1_Extraction ==
    /\ ( /\ KeyLen >= 73
         /\ IsSome(probe.service_id)
         /\ OnCharBoundary(KeyLen - 73)
         /\ OnCharBoundary(KeyLen - 37) ) =>
            /\ probe.service_id[1] = Ret(BytesAt(KeyLen - 73, KeyLen - 38))
            /\ Len(probe.service_id[1][1]) = 36
    /\ ( /\ KeyLen >= 73
         /\ IsSome(probe.secret_key)
         /\ OnCharBoundary(KeyLen - 36) ) =>
            /\ probe.secret_key[1] = Ret(BytesAt(KeyLen - 36, KeyLen - 1))
            /\ Len(probe.secret_key[1][1]) = 36
    /\ (api_key = TestKey /\ IsSome(probe.service_id)) =>
            probe.service_id[1] = Ret(IssuerUuid)
    /\ (api_key = TestKey /\ IsSome(probe.secret_key)) =>
            probe.secret_key[1] = Ret(SecretUuid)

\* Both functions have returned for the test key.
C1_Witness ==
    /\ api_key = TestKey
    /\ BothProbed
    /\ Returned(probe.service_id[1])
    /\ Returned(probe.secret_key[1])

\* The positions a window covers.
IssuerPositions ==
    LET w == service_id_window(KeyLen)
    IN  { p \in 0..(KeyLen - 1) : w.first <= p /\ p <= w.last }

SecretPositions ==
    LET w == secret_key_window(KeyLen)
    IN  { p \in 0..(KeyLen - 1) : w.first <= p /\ p < w.end }

\* C10: for every key of length >= 73 the issuer window is the positions
\* len-73 .. len-38 and the secret window the positions len-36 .. len-1;
\* each has 36 positions, which is the length of what is returned; they are
\* disjoint, and exactly one position, len-37, lies between them.
C10_Windows ==
    ( /\ KeyLen >= 73
      /\ BothProbed
      /\ Returned(probe.service_id[1])
      /\ Returned(probe.secret_key[1]) ) =>
        /\ IssuerPositions = (KeyLen - 73)..(KeyLen - 38)
        /\ SecretPositions = (KeyLen - 36)..(KeyLen - 1)
        /\ Cardinality(IssuerPositions) = 36
        /\ Cardinality(SecretPositions) = 36
        /\ Len(probe.service_id[1][1]) = Cardinality(IssuerPositions)
        /\ Len(probe.secret_key[1][1]) = Cardinality(SecretPositions)
        /\ IssuerPositions \cap SecretPositions = {}
        /\ { p \in 0..(KeyLen - 1) :
               /\ \A q \in IssuerPositions : q < p
               /\ \A q \in SecretPositions : p < q } = { KeyLen - 37 }

\* Both functions have returned for a key longer than 73 bytes that is not
\* the test key.
C10_Witness ==
    /\ KeyLen > 73
    /\ api_key # TestKey
    /\ BothProbed
    /\ Returned(probe.service_id[1])
    /\ Returned(probe.secret_key[1])

---------------------------------------------------------------------------
(* Properties of the dispatcher, stated over Spec.                         *)

\* The requests invocation i has handed to the transport so far.
Posts(c) ==
    IF c.pc = "idle" THEN 0
    ELSE IF c.pc = "returned" THEN c.posts
    ELSE Len(c.requests)

\* create_jwt returned a token to invocation i.
HoldsToken(i) ==
    /\ calls[i].pc \in {"awaiting", "panicked"}
    /\ Returned(calls[i].jwt)
    /\ calls[i].jwt[1].ok

\* create_jwt returned a signing error to invocation i.
SigningFailed(i) ==
    /\ calls[i].pc \in {"awaiting", "panicked"}
    /\ Returned(calls[i].jwt)
    /\ ~calls[i].jwt[1].ok

\* C2 as stated: with a key shorter than 73 characters every send_email and
\* send_sms call ends by returning an InvalidApiKey error to its caller, and
\* hands no request to the transport.
C2_AsStated ==
    KeyLen < 73 =>
        \A i \in Calls :
            /\ calls[i].pc \in {"idle", "returned"}
            /\ calls[i].pc = "returned" =>
                  /\ ~calls[i].result.ok
                  /\ calls[i].result.e = "InvalidApiKey"
            /\ Posts(calls[i]) = 0

\* C3: a token create_jwt issues carries exactly the claims iss and iat; iss
\* is the 36 bytes of the key at len-73 .. len-38, iat is the clock's
\* seconds at the call and is not negative; the token is signed with
\* HMAC-SHA256 under the 36 bytes of the key at len-36 .. len-1.
C3_TokenClaims ==
    \A i \in Calls :
        (calls[i].pc = "awaiting" /\ HoldsToken(i)) =>
            LET t == calls[i].jwt[1].v
            IN  /\ KeyLen >= 73
                /\ DOMAIN t.claims = {"iss", "iat"}
                /\ t.claims.iss = BytesAt(KeyLen - 73, KeyLen - 38)
                /\ t.claims.iat = calls[i].at
                /\ t.claims.iat >= 0
                /\ t.header.alg = "HS256"
                /\ t.signature.hmac_sha256_key = BytesAt(KeyLen - 36, KeyLen - 1)
                /\ t.signature.message = << t.header, t.claims >>

\* A token was issued for the test key after the clock had advanced.
C3_Witness ==
    \E i \in Calls :
        /\ api_key = TestKey
        /\ calls[i].pc = "awaiting"
        /\ HoldsToken(i)
        /\ calls[i].at = 1

\* The keys of a JSON object.
JsonKeys(j) == { m[1] : m \in j }

\* C4: the body sent has exactly the variant's two required keys and the
\* keys of the optional fields the caller supplied, each key once; a
\* supplied field carries the caller's value, an omitted one is absent, and
\* send_email never sends sms_sender_id.
C4_BodyKeys ==
    \A i \in Calls :
        calls[i].pc = "awaiting" =>
            \A n \in 1..Len(calls[i].requests) :
                LET j == calls[i].requests[n].json
                    a == calls[i].args
                IN  /\ JsonKeys(j) =
                         (IF calls[i].kind = "EMAIL"
                          THEN {"email_address", "template_id"}
                          ELSE {"phone_number", "template_id"})
                         \cup (IF IsSome(a.personalisation)
                               THEN {"personalisation"} ELSE {})
                         \cup (IF IsSome(a.reference) THEN {"reference"} ELSE {})
                         \cup (IF IsSome(a.sms_sender_id)
                               THEN {"sms_sender_id"} ELSE {})
                    /\ Cardinality(j) = Cardinality(JsonKeys(j))
                    /\ IsSome(a.personalisation) =>
                         << "personalisation",
                            [Object |-> a.personalisation[1]] >> \in j
                    /\ IsSome(a.reference) =>
                         << "reference", [String |-> a.reference[1]] >> \in j
                    /\ IsSome(a.sms_sender_id) =>
                         << "sms_sender_id", [String |-> a.sms_sender_id[1]] >> \in j
                    /\ << "template_id", [String |-> TemplateId] >> \in j
                    /\ calls[i].kind = "EMAIL" =>
                         /\ "sms_sender_id" \notin JsonKeys(j)
                         /\ << "email_address", [String |-> EmailAddress] >> \in j
                    /\ calls[i].kind = "SMS" =>
                         << "phone_number", [String |-> PhoneNumber] >> \in j

\* An sms with every optional field supplied and an email with none are in
\* flight.
C4_Witness ==
    \E i, k \in Calls :
        /\ calls[i].pc = "awaiting" /\ calls[k].pc = "awaiting"
        /\ calls[i].kind = "SMS"
        /\ IsSome(calls[i].args.personalisation)
        /\ IsSome(calls[i].args.reference)
        /\ IsSome(calls[i].args.sms_sender_id)
        /\ calls[k].kind = "EMAIL"
        /\ calls[k].args.personalisation = None
        /\ calls[k].args.reference = None

\* C5 as stated: two consecutive token derivations with the same key give
\* two distinct tokens with different iat.
C5_AsStated ==
    Len(derived) = 2 =>
        /\ derived[1].token # derived[2].token
        /\ derived[1].token.claims.iat # derived[2].token.claims.iat

\* C5 (amended): every derivation builds its token from the clock at its
\* own call (none is cached or reused), so two consecutive derivations with
\* the same key give distinct tokens exactly when the clock's second differs
\* between them, and the same token within one second.
C5_FreshPerCall ==
    /\ \A n \in 1..Len(derived) : derived[n].token.claims.iat = derived[n].at
    /\ Len(derived) = 2 =>
          /\ (derived[1].at # derived[2].at) =>
                /\ derived[1].token # derived[2].token
                /\ derived[1].token.claims.iat # derived[2].token.claims.iat
          /\ (derived[1].at = derived[2].at) =>
                derived[1].token = derived[2].token

\* Two derivations a second apart.
C5_Witness ==
    /\ Len(derived) = 2
    /\ derived[1].at = 0
    /\ derived[2].at = 1

\* C6: what send_email / send_sms returns is what the transport produced: a
\* response stays a response with its status, whatever the status, and an
\* error stays that error.
C6_Verbatim ==
    \A i \in Calls :
        calls[i].pc = "returned" =>
            /\ calls[i].result = calls[i].transport
            /\ calls[i].transport.ok =>
                  /\ calls[i].result.ok
                  /\ calls[i].result.v.status = calls[i].transport.v.status
            /\ ~calls[i].transport.ok =>
                  /\ ~calls[i].result.ok
                  /\ calls[i].result.e = calls[i].transport.e

\* One invocation has returned a 403 response, another a transport error.
C6_Witness ==
    \E i, k \in Calls :
        /\ calls[i].pc = "returned" /\ calls[k].pc = "returned"
        /\ calls[i].result = Ok(Response(403))
        /\ ~calls[k].result.ok

\* An invocation has ended.
Ended(c) == c.pc \in {"returned", "panicked"}

\* C7: an invocation hands at most one POST to the transport; one that
\* derived its token hands over exactly one; and once it has returned (a
\* response of any status, or a transport error) or panicked it does nothing
\* more, so nothing is sent again.
C7_OnePost ==
    /\ [](\A i \in Calls :
            /\ Posts(calls[i]) <= 1
            /\ HoldsToken(i) => Posts(calls[i]) = 1
            /\ calls[i].pc \in {"awaiting", "returned"} => Posts(calls[i]) = 1
            /\ \A n \in 1..Posts(calls[i]) :
                  calls[i].pc # "returned" => calls[i].requests[n].method = "POST")
    /\ [][\A i \in Calls :
            /\ Posts(calls'[i]) >= Posts(calls[i])
            /\ Ended(calls[i]) => calls'[i] = calls[i]]_vars

\* An invocation has returned a transport error and another a 403 response.
C7_Witness ==
    \E i, k \in Calls :
        /\ calls[i].pc = "returned" /\ calls[k].pc = "returned"
        /\ ~calls[i].result.ok
        /\ calls[k].result = Ok(Response(403))
        /\ Posts(calls[i]) = 1

\* C8 as stated: an invocation whose token derivation fails with a signing
\* error returns that failure to its caller (it does not panic) and sends
\* nothing; every POST carries "Bearer " and the token create_jwt derived in
\* that invocation.
C8_AsStated ==
    \A i \in Calls :
        /\ SigningFailed(i) => (calls[i].pc # "panicked" /\ Posts(calls[i]) = 0)
        /\ calls[i].pc = "awaiting" =>
              \A n \in 1..Len(calls[i].requests) :
                  calls[i].requests[n].headers.authorization =
                      << "Bearer ", calls[i].jwt[1].v >>

\* Two in-flight invocations with the same arguments.
SameCall(i, k) ==
    /\ calls[i].kind = calls[k].kind
    /\ calls[i].args = calls[k].args

\* C9: no step changes the client's api_key or notify_server, a step of one
\* invocation leaves every other invocation as it was, and the request of
\* an invocation is decided by its own variant and arguments and the
\* client's key and base URL: its URL is the base URL and the variant's
\* path, its token's issuer comes from the key, and two invocations given
\* the same arguments send the same URL and body.
C9_Independent ==
    /\ [][ /\ api_key' = api_key
           /\ notify_server' = notify_server
           /\ \A i, k \in Calls :
                 (i # k /\ calls'[i] # calls[i]) => calls'[k] = calls[k] ]_vars
    /\ [](\A i \in Calls :
            calls[i].pc = "awaiting" =>
                \A n \in 1..Len(calls[i].requests) :
                    LET r == calls[i].requests[n]
                    IN  /\ r.url = notify_server \o
                               (IF calls[i].kind = "EMAIL"
                                THEN "/v2/notifications/email"
                                ELSE "/v2/notifications/sms")
                        /\ r.headers.authorization[2].claims.iss =
                               BytesAt(KeyLen - 73, KeyLen - 38)
                        /\ \A k \in Calls :
                              (calls[k].pc = "awaiting" /\ SameCall(i, k)) =>
                                  \A m \in 1..Len(calls[k].requests) :
                                      /\ calls[k].requests[m].url = r.url
                                      /\ calls[k].requests[m].json = r.json)

\* An email and an sms are in flight together, sent a second apart.
C9_Witness ==
    \E i, k \in Calls :
        /\ calls[i].pc = "awaiting" /\ calls[k].pc = "awaiting"
        /\ calls[i].kind = "EMAIL" /\ calls[k].kind = "SMS"
        /\ calls[i].at # calls[k].at

=============================================================================
